---- MODULE Spec2Model ----
(***************************************************************************)
(* Task-board REST backend: the Board, Status and Task controllers over    *)
(* the relational store created by prisma/migrations.                      *)
(*                                                                         *)
(* A request handler is an async function: it runs synchronously up to an  *)
(* awaited Prisma call, and other requests may run while it waits.  Every  *)
(* Prisma call is one atomic statement of the store.  An action of this    *)
(* model is therefore one Prisma call together with the synchronous code   *)
(* of the handler that follows it up to the next call or the response.     *)
(***************************************************************************)
EXTENDS Integers, Sequences, FiniteSets, TLC

\* Bounds of the model: how many ids each SERIAL sequence hands out, how many
\* optional keys one PUT /tasks/:id body carries, and how many requests the
\* server receives.
MaxBoards == 2
MaxStatuses == 2
MaxTasks == 2
MaxKeys == 2
MaxRequests == 5

\* The requests that may be in flight at the same time.
Procs == 1..2

\* A NULL statusId column.
NULL == 0

(***************************************************************************)
(* JavaScript values of a request: undefined (key absent), null, a string. *)
(* A string is a sequence of one-character strings.                        *)
(***************************************************************************)
Undefined == [t |-> "undefined", s |-> <<>>]
Null == [t |-> "null", s |-> <<>>]
Str(s) == [t |-> "string", s |-> s]

RECURSIVE TrimStart(_)
TrimStart(s) == IF s # <<>> /\ Head(s) = " " THEN TrimStart(Tail(s)) ELSE s

RECURSIVE TrimEnd(_)
TrimEnd(s) ==
  IF s # <<>> /\ s[Len(s)] = " " THEN TrimEnd(SubSeq(s, 1, Len(s) - 1)) ELSE s

\* String.prototype.trim
trim(s) == TrimEnd(TrimStart(s))

Digits == <<"0", "1", "2", "3", "4", "5", "6", "7", "8", "9">>
IsDigit(c) == \E d \in 1..10 : Digits[d] = c
DigitVal(c) == (CHOOSE d \in 1..10 : Digits[d] = c) - 1

RECURSIVE DigitsValue(_, _)
DigitsValue(s, acc) ==
  IF s # <<>> /\ IsDigit(Head(s))
    THEN DigitsValue(Tail(s), acc * 10 + DigitVal(Head(s)))
    ELSE acc

NaN == [nan |-> TRUE, n |-> 0]

\* parseInt(v, 10): leading whitespace is skipped, a sign is accepted, the
\* longest prefix of digits is the value, anything after it is ignored; NaN
\* when there is no digit (and for undefined and null).
parseInt(v) ==
  IF v.t # "string" THEN NaN
  ELSE LET s == TrimStart(v.s)
           signed == s # <<>> /\ Head(s) \in {"-", "+"}
           body == IF signed THEN Tail(s) ELSE s
       IN IF body = <<>> \/ ~IsDigit(Head(body)) THEN NaN
          ELSE [nan |-> FALSE,
                n |-> (IF Head(s) = "-" THEN -1 ELSE 1) * DigitsValue(body, 0)]

\* !name || typeof name !== 'string' || name.trim() === ''
NameMissing(name) == name.t # "string" \/ name.s = <<>> \/ trim(name.s) = <<>>

(***************************************************************************)
(* State: the three tables, their SERIAL sequences, the requests.          *)
(***************************************************************************)
VARIABLES
  boards,        \* Board rows: id -> name
  statuses,      \* Status rows: id -> name
  tasks,         \* Task rows: id -> [title, description, boardId, statusId]
  nextBoardId,   \* Board_id_seq
  nextStatusId,  \* Status_id_seq
  nextTaskId,    \* Task_id_seq
  procs,         \* request slot -> [pc, op, args, code, msg, count]
  nreq           \* requests received so far

vars ==
  <<boards, statuses, tasks, nextBoardId, nextStatusId, nextTaskId, procs, nreq>>
db == <<boards, statuses, tasks, nextBoardId, nextStatusId, nextTaskId>>

NoArgs ==
  [id |-> Undefined, name |-> Undefined, title |-> Undefined,
   description |-> Undefined, boardId |-> Undefined, statusId |-> Undefined,
   statusName |-> Undefined]

Idle ==
  [pc |-> "idle", op |-> "none", args |-> NoArgs, code |-> 0, msg |-> "",
   count |-> 0]

Init ==
  /\ boards = <<>>
  /\ statuses = <<>>
  /\ tasks = <<>>
  /\ nextBoardId = 1
  /\ nextStatusId = 1
  /\ nextTaskId = 1
  /\ procs = [p \in Procs |-> Idle]
  /\ nreq = 0

\* A handler runs from the end of one awaited call to the start of the next,
\* or to its response, without another handler running in between: while a
\* response is being written no other request moves.
Responding == \E q \in Procs : procs[q].pc = "done"
InFlight(op) ==
  Cardinality({q \in Procs : procs[q].op = op /\ procs[q].pc \notin {"idle", "done"}})

\* The router hands a new request to a handler: slot p is idle (slots are
\* interchangeable, the lowest idle one is taken).
Accept(p) ==
  /\ ~Responding
  /\ procs[p].pc = "idle"
  /\ \A q \in Procs : q < p => procs[q].pc # "idle"
  /\ nreq < MaxRequests
  /\ nreq' = nreq + 1

\* Slot p resumes after the call it awaits.
Resume(p, op, call) ==
  /\ ~Responding
  /\ procs[p].op = op
  /\ procs[p].pc = call
  /\ nreq' = nreq

\* The handler awaits its next Prisma call.
Await(op, args, call) ==
  [pc |-> call, op |-> op, args |-> args, code |-> 0, msg |-> "", count |-> 0]
\* res.status(code).json(...)
Answer(op, args, code, msg) ==
  [pc |-> "done", op |-> op, args |-> args, code |-> code, msg |-> msg,
   count |-> 0]
\* The Prisma call rejects: catch (err) { next(err) }, and the error handler
\* answers err.status || 500 with the error's message.
Thrown(op, args, prismaCode) == Answer(op, args, 500, prismaCode)

\* The steps of a handler already awaiting keep `count`, the number of rows
\* that its deleteMany or updateMany has written ({ count } of the call).
Set(p, r) == procs' = [procs EXCEPT ![p] = r]
Respond(p, code, msg) ==
  Set(p, [Answer(procs[p].op, procs[p].args, code, msg)
            EXCEPT !.count = procs[p].count])
Throw(p, prismaCode) ==
  Set(p, [Thrown(procs[p].op, procs[p].args, prismaCode)
            EXCEPT !.count = procs[p].count])
Goto(p, call) ==
  Set(p, [Await(procs[p].op, procs[p].args, call)
            EXCEPT !.count = procs[p].count])
Counted(p, call, n) ==
  Set(p, [Await(procs[p].op, procs[p].args, call) EXCEPT !.count = n])

\* The response is sent and the request is over.
Finish(p) ==
  /\ procs[p].pc = "done"
  /\ procs' = [procs EXCEPT ![p] = Idle]
  /\ UNCHANGED <<db, nreq>>

(***************************************************************************)
(* Request inputs.  A run with `rich` draws malformed inputs too.          *)
(***************************************************************************)
IdStr(i) == Str(<<Digits[i + 1]>>)
Ids(max, rich) ==
  {IdStr(i) : i \in 1..max} \cup (IF rich THEN {Str(<<"x">>)} ELSE {})
Names(rich) ==
  {Str(<<"a", " ">>), Str(<<"b">>)}
    \cup (IF rich THEN {Str(<<" ">>), Str(<<"a">>)} ELSE {})

(***************************************************************************)
(* The store's constraints (migration.sql).                                *)
(***************************************************************************)
\* Status_name_key is the only unique index on a name column: the Board
\* table is created with its primary key alone.
HasUniqueNameIndex(table) == table = "Status"

\* A row of `rows` other than `self` holds `name`.
NameHeldByAny(rows, name, self) == \E r \in DOMAIN rows : rows[r] = name
NameHeld(rows, name, self) == \E r \in DOMAIN rows : r # self /\ rows[r] = name

\* Task_boardId_fkey ... ON DELETE RESTRICT: a Board row that a Task
\* references cannot be deleted.
NoRestrict(bid) == FALSE
BoardDeleteRestricted(bid) == \E t \in DOMAIN tasks : tasks[t].boardId = bid

\* Task_statusId_fkey ... ON DELETE SET NULL: the rows of Task after the
\* Status row sid is deleted.
NoSetNull(sid) == tasks
OnDeleteSetNull(sid) ==
  [t \in DOMAIN tasks |->
     IF tasks[t].statusId = sid THEN [tasks[t] EXCEPT !.statusId = NULL]
     ELSE tasks[t]]

Remove(rows, id) == [r \in DOMAIN rows \ {id} |-> rows[r]]

(***************************************************************************)
(* boardController                                                         *)
(***************************************************************************)
\* getBoards: every Board with its Tasks, newest first (ids grow with
\* createdAt).
RECURSIVE BoardsDesc(_)
BoardsDesc(ids) ==
  IF ids = {} THEN <<>>
  ELSE LET m == CHOOSE i \in ids : \A j \in ids : j <= i
       IN <<[id |-> m, name |-> boards[m],
             tasks |-> {t \in DOMAIN tasks : tasks[t].boardId = m}]>>
          \o BoardsDesc(ids \ {m})
getBoards == BoardsDesc(DOMAIN boards)

\* createBoard up to the answer to
\* prisma.board.findUnique({ where: { name: trimmedName } })
CreateBoard(p, rich) ==
  /\ Accept(p)
  /\ nextBoardId + InFlight("createBoard") <= MaxBoards
  /\ \E name \in Names(rich) :
       /\ LET args == [NoArgs EXCEPT !.name = name]
          IN Set(p,
               IF NameMissing(name)
                 THEN Answer("createBoard", args, 400, "Board name is required")
               ELSE IF NameHeld(boards, trim(name.s), 0)
                 THEN Answer("createBoard", args, 400, "Board name already exists")
               ELSE Await("createBoard", args, "create"))
       /\ UNCHANGED db

\* prisma.board.create({ data: { name: trimmedName } })
CreateBoardCreate(p) ==
  /\ Resume(p, "createBoard", "create")
  /\ nextBoardId' = nextBoardId + 1
  /\ IF HasUniqueNameIndex("Board") /\ NameHeld(boards, trim(procs[p].args.name.s), 0)
       THEN /\ Throw(p, "P2002")
            /\ UNCHANGED boards
       ELSE /\ boards' = boards @@ (nextBoardId :> trim(procs[p].args.name.s))
            /\ Respond(p, 201, "")
  /\ UNCHANGED <<statuses, tasks, nextStatusId, nextTaskId>>

\* updateBoard up to the answer to
\* prisma.board.findUnique({ where: { id: boardId } })
UpdateBoardConflictFirst(p, rich) ==
  /\ Accept(p)
  /\ \E id \in Ids(MaxBoards, rich), name \in Names(rich) :
       /\ LET args == [NoArgs EXCEPT !.id = id, !.name = name]
          IN Set(p,
               IF parseInt(id).nan
                 THEN Answer("updateBoard", args, 400, "Invalid board id")
               ELSE IF NameMissing(name)
                 THEN Answer("updateBoard", args, 400, "Board name is required")
               ELSE IF NameHeld(boards, trim(name.s), parseInt(id).n)
                 THEN Answer("updateBoard", args, 400,
                             "Another board with this name already exists")
               ELSE IF parseInt(id).n \notin DOMAIN boards
                 THEN Answer("updateBoard", args, 404, "Board not found")
               ELSE Await("updateBoard", args, "findFirst"))
       /\ UNCHANGED db
UpdateBoard(p, rich) ==
  /\ Accept(p)
  /\ \E id \in Ids(MaxBoards, rich), name \in Names(rich) :
       /\ LET args == [NoArgs EXCEPT !.id = id, !.name = name]
          IN Set(p,
               IF parseInt(id).nan
                 THEN Answer("updateBoard", args, 400, "Invalid board id")
               ELSE IF NameMissing(name)
                 THEN Answer("updateBoard", args, 400, "Board name is required")
               ELSE IF parseInt(id).n \notin DOMAIN boards
                 THEN Answer("updateBoard", args, 404, "Board not found")
               ELSE Await("updateBoard", args, "findFirst"))
       /\ UNCHANGED db

\* prisma.board.findFirst({ where: { name: trimmedName, NOT: { id: boardId } } })
UpdateBoardFindFirst(p) ==
  /\ Resume(p, "updateBoard", "findFirst")
  /\ IF NameHeld(boards, trim(procs[p].args.name.s), parseInt(procs[p].args.id).n)
       THEN Respond(p, 400, "Another board with this name already exists")
       ELSE Goto(p, "update")
  /\ UNCHANGED db

\* prisma.board.update({ where: { id: boardId }, data: { name: trimmedName } })
UpdateBoardUpdate(p) ==
  /\ Resume(p, "updateBoard", "update")
  /\ LET bid == parseInt(procs[p].args.id).n
         name == trim(procs[p].args.name.s)
     IN IF bid \notin DOMAIN boards
          THEN /\ Throw(p, "P2025")
               /\ UNCHANGED boards
        ELSE IF HasUniqueNameIndex("Board") /\ NameHeld(boards, name, bid)
          THEN /\ Throw(p, "P2002")
               /\ UNCHANGED boards
        ELSE /\ boards' = [boards EXCEPT ![bid] = name]
             /\ Respond(p, 200, "")
  /\ UNCHANGED <<statuses, tasks, nextBoardId, nextStatusId, nextTaskId>>

\* deleteBoard up to the answer to
\* prisma.board.findUnique({ where: { id: boardId } })
DeleteBoard(p, rich) ==
  /\ Accept(p)
  /\ \E id \in Ids(MaxBoards, rich) :
       /\ LET args == [NoArgs EXCEPT !.id = id]
          IN Set(p,
               IF parseInt(id).nan
                 THEN Answer("deleteBoard", args, 400, "Invalid board id")
               ELSE IF parseInt(id).n \notin DOMAIN boards
                 THEN Answer("deleteBoard", args, 404, "Board not found")
               ELSE Await("deleteBoard", args, "deleteMany"))
       /\ UNCHANGED db

\* The Task rows that prisma.task.deleteMany({ where: { boardId } }) keeps.
KeepNoTask(bid) == {}
TasksNotOf(bid) == {t \in DOMAIN tasks : tasks[t].boardId # bid}

DeleteBoardDeleteMany(p) ==
  /\ Resume(p, "deleteBoard", "deleteMany")
  /\ tasks' = [t \in TasksNotOf(parseInt(procs[p].args.id).n) |-> tasks[t]]
  /\ Counted(p, "delete",
             Cardinality(DOMAIN tasks \ TasksNotOf(parseInt(procs[p].args.id).n)))
  /\ UNCHANGED <<boards, statuses, nextBoardId, nextStatusId, nextTaskId>>

\* prisma.board.delete({ where: { id: boardId } })
DeleteBoardDelete(p) ==
  /\ Resume(p, "deleteBoard", "delete")
  /\ LET bid == parseInt(procs[p].args.id).n
     IN IF bid \notin DOMAIN boards
          THEN /\ Throw(p, "P2025")
               /\ UNCHANGED boards
        ELSE IF BoardDeleteRestricted(bid)
          THEN /\ Throw(p, "P2003")
               /\ UNCHANGED boards
        ELSE /\ boards' = Remove(boards, bid)
             /\ Respond(p, 200, "Board and its tasks deleted successfully")
  /\ UNCHANGED <<statuses, tasks, nextBoardId, nextStatusId, nextTaskId>>

(***************************************************************************)
(* statusController                                                        *)
(***************************************************************************)
\* getStatuses: every Status, oldest first.
RECURSIVE StatusesAsc(_)
StatusesAsc(ids) ==
  IF ids = {} THEN <<>>
  ELSE LET m == CHOOSE i \in ids : \A j \in ids : i <= j
       IN <<[id |-> m, name |-> statuses[m]]>> \o StatusesAsc(ids \ {m})
getStatuses == StatusesAsc(DOMAIN statuses)

\* createStatus up to the answer to
\* prisma.status.findUnique({ where: { name: trimmed } })
CreateStatus(p, rich) ==
  /\ Accept(p)
  /\ nextStatusId + InFlight("createStatus") <= MaxStatuses
  /\ \E name \in Names(rich) :
       /\ LET args == [NoArgs EXCEPT !.name = name]
          IN Set(p,
               IF NameMissing(name)
                 THEN Answer("createStatus", args, 400, "Status name is required")
               ELSE IF NameHeld(statuses, trim(name.s), 0)
                 THEN Answer("createStatus", args, 400, "Status name already exists")
               ELSE Await("createStatus", args, "create"))
       /\ UNCHANGED db

\* prisma.status.create({ data: { name: trimmed } }); the sequence has
\* advanced also when the unique index refuses the row.
CreateStatusCreate(p) ==
  /\ Resume(p, "createStatus", "create")
  /\ nextStatusId' = nextStatusId + 1
  /\ IF HasUniqueNameIndex("Status") /\ NameHeld(statuses, trim(procs[p].args.name.s), 0)
       THEN /\ Throw(p, "P2002")
            /\ UNCHANGED statuses
       ELSE /\ statuses' = statuses @@ (nextStatusId :> trim(procs[p].args.name.s))
            /\ Respond(p, 201, "")
  /\ UNCHANGED <<boards, tasks, nextBoardId, nextTaskId>>

\* updateStatus up to the answer to
\* prisma.status.findUnique({ where: { id: statusId } })
UpdateStatus(p, rich) ==
  /\ Accept(p)
  /\ \E id \in Ids(MaxStatuses, rich), name \in Names(rich) :
       /\ LET args == [NoArgs EXCEPT !.id = id, !.name = name]
          IN Set(p,
               IF parseInt(id).nan
                 THEN Answer("updateStatus", args, 400, "Invalid status id")
               ELSE IF NameMissing(name)
                 THEN Answer("updateStatus", args, 400, "Status name is required")
               ELSE IF parseInt(id).n \notin DOMAIN statuses
                 THEN Answer("updateStatus", args, 404, "Status not found")
               ELSE Await("updateStatus", args, "findByName"))
       /\ UNCHANGED db

\* prisma.status.findUnique({ where: { name: trimmed } });
\* conflict && conflict.id !== statusId
UpdateStatusFindByName(p) ==
  /\ Resume(p, "updateStatus", "findByName")
  /\ IF NameHeld(statuses, trim(procs[p].args.name.s), parseInt(procs[p].args.id).n)
       THEN Respond(p, 400, "Another status with this name already exists")
       ELSE Goto(p, "update")
  /\ UNCHANGED db

\* prisma.status.update({ where: { id: statusId }, data: { name: trimmed } })
UpdateStatusUpdate(p) ==
  /\ Resume(p, "updateStatus", "update")
  /\ LET sid == parseInt(procs[p].args.id).n
         name == trim(procs[p].args.name.s)
     IN IF sid \notin DOMAIN statuses
          THEN /\ Throw(p, "P2025")
               /\ UNCHANGED statuses
        ELSE IF HasUniqueNameIndex("Status") /\ NameHeld(statuses, name, sid)
          THEN /\ Throw(p, "P2002")
               /\ UNCHANGED statuses
        ELSE /\ statuses' = [statuses EXCEPT ![sid] = name]
             /\ Respond(p, 200, "")
  /\ UNCHANGED <<boards, tasks, nextBoardId, nextStatusId, nextTaskId>>

\* deleteStatus up to the answer to
\* prisma.status.findUnique({ where: { id: statusId } })
DeleteStatus(p, rich) ==
  /\ Accept(p)
  /\ \E id \in Ids(MaxStatuses, rich) :
       /\ LET args == [NoArgs EXCEPT !.id = id]
          IN Set(p,
               IF parseInt(id).nan
                 THEN Answer("deleteStatus", args, 400, "Invalid status id")
               ELSE IF parseInt(id).n \notin DOMAIN statuses
                 THEN Answer("deleteStatus", args, 404, "Status not found")
               ELSE Await("deleteStatus", args, "updateMany"))
       /\ UNCHANGED db

\* The Task rows that
\* prisma.task.updateMany({ where: { statusId }, data: { statusId: null } })
\* writes.
EveryTask(sid) == DOMAIN tasks
TasksWithStatus(sid) == {t \in DOMAIN tasks : tasks[t].statusId = sid}

DeleteStatusUpdateMany(p) ==
  /\ Resume(p, "deleteStatus", "updateMany")
  /\ tasks' = [t \in DOMAIN tasks |->
                 IF t \in TasksWithStatus(parseInt(procs[p].args.id).n)
                   THEN [tasks[t] EXCEPT !.statusId = NULL]
                   ELSE tasks[t]]
  /\ Counted(p, "delete",
             Cardinality(TasksWithStatus(parseInt(procs[p].args.id).n)))
  /\ UNCHANGED <<boards, statuses, nextBoardId, nextStatusId, nextTaskId>>

\* prisma.status.delete({ where: { id: statusId } })
DeleteStatusDelete(p) ==
  /\ Resume(p, "deleteStatus", "delete")
  /\ LET sid == parseInt(procs[p].args.id).n
     IN IF sid \notin DOMAIN statuses
          THEN /\ Throw(p, "P2025")
               /\ UNCHANGED <<statuses, tasks>>
          ELSE /\ statuses' = Remove(statuses, sid)
               /\ tasks' = OnDeleteSetNull(sid)
               /\ Respond(p, 200, "Status deleted and tasks unlinked")
  /\ UNCHANGED <<boards, nextBoardId, nextStatusId, nextTaskId>>

(***************************************************************************)
(* taskController                                                          *)
(***************************************************************************)
BodyKeys == {"title", "description", "boardId", "statusId", "statusName"}
KeysPresent(args) == {k \in BodyKeys : args[k] # Undefined}

\* POST /tasks bodies.
CreateTaskBodies ==
  [id : {Undefined}, name : {Undefined},
   title : {Str(<<" ">>), Str(<<"t", " ">>)},
   description : {Undefined, Str(<<" ", "d">>)},
   boardId : Ids(MaxBoards, TRUE),
   statusId : {Undefined} \cup Ids(MaxStatuses, TRUE),
   statusName : {Undefined, Str(<<"a">>)}]
CreateTaskBodiesWellFormed ==
  [id : {Undefined}, name : {Undefined},
   title : {Str(<<"t", " ">>)},
   description : {Undefined},
   boardId : Ids(MaxBoards, FALSE),
   statusId : Ids(MaxStatuses, FALSE),
   statusName : {Undefined}]
CreateTaskInputs(rich) ==
  IF rich THEN CreateTaskBodies ELSE CreateTaskBodiesWellFormed

\* PUT /tasks/:id requests whose body has the keys K.
UpdateTaskBodiesWith(K, rich) ==
  [id : Ids(MaxTasks, rich), name : {Undefined},
   title : IF "title" \notin K THEN {Undefined}
           ELSE {Str(<<" ", "u">>)} \cup (IF rich THEN {Str(<<" ">>)} ELSE {}),
   description : IF "description" \notin K THEN {Undefined}
                 ELSE {Null, Str(<<"d", " ">>)},
   boardId : IF "boardId" \notin K THEN {Undefined} ELSE Ids(MaxBoards, rich),
   statusId : IF "statusId" \notin K THEN {Undefined}
              ELSE {Null} \cup Ids(MaxStatuses, rich),
   statusName : IF "statusName" \notin K THEN {Undefined}
                ELSE {Null, Str(<<"a">>)}]

\* At most MaxKeys keys in the body.
UpdateTaskBodies ==
  UNION {UpdateTaskBodiesWith(K, TRUE) :
           K \in {K \in SUBSET BodyKeys : Cardinality(K) <= MaxKeys}}
\* One key, boardId or statusId.
UpdateTaskBodiesWellFormed ==
  UNION {UpdateTaskBodiesWith({k}, FALSE) : k \in {"boardId", "statusId"}}
UpdateTaskInputs(rich) ==
  IF rich THEN UpdateTaskBodies ELSE UpdateTaskBodiesWellFormed

\* resolveStatus before its lookup: it throws, or awaits
\* prisma.status.findUnique({ where: { id: parsed } }).  statusName is not read.
ResolveOrDefault(args) ==
  IF args.statusId.t \in {"undefined", "null"}
    THEN [r |-> "null", code |-> 0, msg |-> ""]
  ELSE IF parseInt(args.statusId).nan
    THEN [r |-> "throw", code |-> 400, msg |-> "statusId must be a valid integer"]
  ELSE [r |-> "find", code |-> 0, msg |-> ""]
resolveStatus(args) ==
  IF args.statusId.t \in {"undefined", "null"}
    THEN [r |-> "throw", code |-> 404, msg |-> "Status not found"]
  ELSE IF parseInt(args.statusId).nan
    THEN [r |-> "throw", code |-> 400, msg |-> "statusId must be a valid integer"]
  ELSE [r |-> "find", code |-> 0, msg |-> ""]

\* The Board the handler looks up: prisma.board.findUnique({ where: { id } })
AnyBoard(bid) == TRUE
BoardFound(bid) == bid \in DOMAIN boards

\* createTask from `let status = null` on, the Board being found.
CreateTaskResolve(op, args) ==
  LET s == resolveStatus(args)
  IN IF s.r = "throw" THEN Answer(op, args, s.code, s.msg)
     ELSE IF s.r = "find" THEN Await(op, args, "findStatus")
     ELSE Await(op, args, "create")

\* createTask up to the answer to
\* prisma.board.findUnique({ where: { id: parsedBoardId } }) and, the Board
\* found, to the lookup of resolveStatus
CreateTask(p, rich) ==
  /\ Accept(p)
  /\ nextTaskId + InFlight("createTask") <= MaxTasks
  /\ \E args \in CreateTaskInputs(rich) :
       /\ Set(p,
            IF NameMissing(args.title)
              THEN Answer("createTask", args, 400, "Task title is required")
            ELSE IF parseInt(args.boardId).nan
              THEN Answer("createTask", args, 400, "Valid boardId is required")
            ELSE IF ~BoardFound(parseInt(args.boardId).n)
              THEN Answer("createTask", args, 404, "Board not found")
            ELSE CreateTaskResolve("createTask", args))
       /\ UNCHANGED db

\* resolveStatus: prisma.status.findUnique({ where: { id: parsed } })
CreateTaskFindStatus(p) ==
  /\ Resume(p, "createTask", "findStatus")
  /\ IF parseInt(procs[p].args.statusId).n \notin DOMAIN statuses
       THEN Respond(p, 404, "Status not found")
       ELSE Goto(p, "create")
  /\ UNCHANGED db

\* description ? String(description).trim() : null
CreateDescription(d) == IF d.t = "string" /\ d.s # <<>> THEN Str(trim(d.s)) ELSE Null

\* The row of prisma.task.create({ data }).
NewTask(args) ==
  [title |-> trim(args.title.s),
   description |-> CreateDescription(args.description),
   boardId |-> parseInt(args.boardId).n,
   statusId |-> IF resolveStatus(args).r = "find"
                  THEN parseInt(args.statusId).n ELSE NULL]

\* prisma.task.create({ data }): the rows that data connects must exist
\* (Task_boardId_fkey, Task_statusId_fkey).
CreateTaskCreate(p) ==
  /\ Resume(p, "createTask", "create")
  /\ nextTaskId' = nextTaskId + 1
  /\ LET row == NewTask(procs[p].args)
     IN IF \/ row.boardId \notin DOMAIN boards
           \/ row.statusId # NULL /\ row.statusId \notin DOMAIN statuses
          THEN /\ Throw(p, "P2025")
               /\ UNCHANGED tasks
          ELSE /\ tasks' = tasks @@ (nextTaskId :> row)
               /\ Respond(p, 201, "")
  /\ UNCHANGED <<boards, statuses, nextBoardId, nextStatusId>>

\* updateTask from the comment `Handle status update` on.
UpdateTaskStatus(op, args) ==
  IF args.statusId = Undefined /\ args.statusName = Undefined
    THEN Await(op, args, "update")
  ELSE IF args.statusId = Null \/ args.statusName = Null
    THEN Await(op, args, "update")
  ELSE LET s == resolveStatus(args)
       IN IF s.r = "throw" THEN Answer(op, args, s.code, s.msg)
          ELSE IF s.r = "find" THEN Await(op, args, "findStatus")
          ELSE Await(op, args, "update")

\* title !== undefined && (!title || typeof title !== 'string' || title.trim() === '')
AnyTitle(title) == FALSE
TitleRejected(title) == title # Undefined /\ NameMissing(title)

\* updateTask up to the answer to
\* prisma.task.findUnique({ where: { id: taskId } }) and, the Task found, to
\* the next lookup
UpdateTask(p, rich) ==
  /\ Accept(p)
  /\ \E args \in UpdateTaskInputs(rich) :
       /\ Set(p,
            IF parseInt(args.id).nan
              THEN Answer("updateTask", args, 400, "Invalid task id")
            ELSE IF parseInt(args.id).n \notin DOMAIN tasks
              THEN Answer("updateTask", args, 404, "Task not found")
            ELSE IF TitleRejected(args.title)
              THEN Answer("updateTask", args, 400,
                          "Task title, if provided, must be a non-empty string")
            ELSE IF args.boardId = Undefined
              THEN UpdateTaskStatus("updateTask", args)
            ELSE IF parseInt(args.boardId).nan
              THEN Answer("updateTask", args, 400, "boardId must be a valid integer")
            ELSE Await("updateTask", args, "findBoard"))
       /\ UNCHANGED db

\* prisma.board.findUnique({ where: { id: parsedBoardId } })
UpdateTaskFindBoard(p) ==
  /\ Resume(p, "updateTask", "findBoard")
  /\ Set(p,
       IF ~BoardFound(parseInt(procs[p].args.boardId).n)
         THEN Answer("updateTask", procs[p].args, 404, "Board not found")
         ELSE UpdateTaskStatus("updateTask", procs[p].args))
  /\ UNCHANGED db

\* resolveStatus: prisma.status.findUnique({ where: { id: parsed } })
UpdateTaskFindStatus(p) ==
  /\ Resume(p, "updateTask", "findStatus")
  /\ IF parseInt(procs[p].args.statusId).n \notin DOMAIN statuses
       THEN Respond(p, 404, "Status not found")
       ELSE Goto(p, "update")
  /\ UNCHANGED db

\* data.status: absent ("keep"), { disconnect: true } or { connect: { id } }
ConnectFirst(args) ==
  IF args.statusId = Undefined /\ args.statusName = Undefined THEN "keep"
  ELSE IF args.statusId = Null THEN "disconnect"
  ELSE IF resolveStatus(args).r = "find" THEN "connect"
  ELSE "disconnect"
DataStatus(args) ==
  IF args.statusId = Undefined /\ args.statusName = Undefined THEN "keep"
  ELSE IF args.statusId = Null \/ args.statusName = Null THEN "disconnect"
  ELSE IF resolveStatus(args).r = "find" THEN "connect"
  ELSE "disconnect"

\* The row that prisma.task.update({ where: { id: taskId }, data }) leaves.
ClearsAbsent(row, args) ==
  [title |-> IF args.title = Undefined THEN row.title ELSE trim(args.title.s),
   description |-> IF args.description.t = "string"
                     THEN Str(trim(args.description.s)) ELSE Null,
   boardId |-> IF args.boardId = Undefined THEN row.boardId
               ELSE parseInt(args.boardId).n,
   statusId |-> IF DataStatus(args) = "connect" THEN parseInt(args.statusId).n
                ELSE NULL]
Updated(row, args) ==
  [title |-> IF args.title = Undefined THEN row.title ELSE trim(args.title.s),
   description |-> IF args.description = Undefined THEN row.description
                   ELSE IF args.description = Null THEN Null
                   ELSE Str(trim(args.description.s)),
   boardId |-> IF args.boardId = Undefined THEN row.boardId
               ELSE parseInt(args.boardId).n,
   statusId |-> IF DataStatus(args) = "keep" THEN row.statusId
                ELSE IF DataStatus(args) = "connect" THEN parseInt(args.statusId).n
                ELSE NULL]

\* prisma.task.update({ where: { id: taskId }, data })
UpdateTaskUpdate(p) ==
  /\ Resume(p, "updateTask", "update")
  /\ LET tid == parseInt(procs[p].args.id).n
     IN IF tid \notin DOMAIN tasks
          THEN /\ Throw(p, "P2025")
               /\ UNCHANGED tasks
          ELSE LET row == Updated(tasks[tid], procs[p].args)
               IN IF \/ row.boardId \notin DOMAIN boards
                     \/ row.statusId # NULL /\ row.statusId \notin DOMAIN statuses
                    THEN /\ Throw(p, "P2025")
                         /\ UNCHANGED tasks
                    ELSE /\ tasks' = [tasks EXCEPT ![tid] = row]
                         /\ Respond(p, 200, "")
  /\ UNCHANGED <<boards, statuses, nextBoardId, nextStatusId, nextTaskId>>

\* deleteTask up to the answer to
\* prisma.task.findUnique({ where: { id: taskId } })
DeleteTask(p, rich) ==
  /\ Accept(p)
  /\ \E id \in Ids(MaxTasks, rich) :
       /\ LET args == [NoArgs EXCEPT !.id = id]
          IN Set(p,
               IF parseInt(id).nan
                 THEN Answer("deleteTask", args, 400, "Invalid task id")
               ELSE IF parseInt(id).n \notin DOMAIN tasks
                 THEN Answer("deleteTask", args, 404, "Task not found")
               ELSE Await("deleteTask", args, "delete"))
       /\ UNCHANGED db

\* prisma.task.delete({ where: { id: taskId } })
DeleteTaskDelete(p) ==
  /\ Resume(p, "deleteTask", "delete")
  /\ LET tid == parseInt(procs[p].args.id).n
     IN IF tid \notin DOMAIN tasks
          THEN /\ Throw(p, "P2025")
               /\ UNCHANGED tasks
          ELSE /\ tasks' = Remove(tasks, tid)
               /\ Respond(p, 200, "Task deleted successfully")
  /\ UNCHANGED <<boards, statuses, nextBoardId, nextStatusId, nextTaskId>>

(***************************************************************************)
(* The server: routes/router.js dispatches each request to its handler.    *)
(***************************************************************************)
Receive(p, rich) ==
  \/ CreateBoard(p, rich)
  \/ UpdateBoard(p, rich)
  \/ DeleteBoard(p, rich)
  \/ CreateStatus(p, rich)
  \/ UpdateStatus(p, rich)
  \/ DeleteStatus(p, rich)
  \/ CreateTask(p, rich)
  \/ UpdateTask(p, rich)
  \/ DeleteTask(p, rich)

Continue(p) ==
  \/ CreateBoardCreate(p)
  \/ UpdateBoardFindFirst(p)
  \/ UpdateBoardUpdate(p)
  \/ DeleteBoardDeleteMany(p)
  \/ DeleteBoardDelete(p)
  \/ CreateStatusCreate(p)
  \/ UpdateStatusFindByName(p)
  \/ UpdateStatusUpdate(p)
  \/ DeleteStatusUpdateMany(p)
  \/ DeleteStatusDelete(p)
  \/ CreateTaskFindStatus(p)
  \/ CreateTaskCreate(p)
  \/ UpdateTaskFindBoard(p)
  \/ UpdateTaskFindStatus(p)
  \/ UpdateTaskUpdate(p)
  \/ DeleteTaskDelete(p)
  \/ Finish(p)

\* Concurrent requests with well-formed bodies.
Next == \E p \in Procs : Receive(p, FALSE) \/ Continue(p)
Spec == Init /\ [][Next]_vars

\* One request at a time, malformed bodies included.
NextSeq == Receive(1, TRUE) \/ Continue(1)
SpecSeq == Init /\ [][NextSeq]_vars

(***************************************************************************)
(* Properties.                                                             *)
(***************************************************************************)
\* Slot p takes a step of a request `op` (entering the handler included, the
\* end of the request not).
Acts(p, op) ==
  /\ procs[p].pc # "done"
  /\ procs'[p] # procs[p]
  /\ procs'[p].op = op
\* Slot p answers a request `op` with `code` in this step.
Answers(p, op, code) ==
  /\ Acts(p, op)
  /\ procs'[p].pc = "done"
  /\ procs'[p].code = code
\* Slot p holds the answer `code` to a request `op`.
Answered(p, op, code) ==
  procs[p].pc = "done" /\ procs[p].op = op /\ procs[p].code = code

\* C1: in every reachable state every stored Task's boardId is the id of a
\* Board that exists.
C1_TaskBoardExists == \A t \in DOMAIN tasks : tasks[t].boardId \in DOMAIN boards

\* C1 witness: a deleteBoard whose deleteMany ran before a concurrent request
\* attached a Task to the Board is refused by the foreign key, and the Task
\* and its Board are both stored.
C1_Witness ==
  \E p \in Procs :
    /\ Answered(p, "deleteBoard", 500)
    /\ procs[p].msg = "P2003"
    /\ \E t \in DOMAIN tasks : tasks[t].boardId = parseInt(procs[p].args.id).n

\* C2: in every reachable state every stored Task's statusId is NULL or the
\* id of a Status that exists.
C2_TaskStatusExists ==
  \A t \in DOMAIN tasks :
    tasks[t].statusId = NULL \/ tasks[t].statusId \in DOMAIN statuses

\* C2 witness: deleteStatus has run its unlink step and awaits its delete
\* step, and a Task references the Status: it was connected in between.
C2_Witness ==
  \E p \in Procs :
    /\ procs[p].op = "deleteStatus"
    /\ procs[p].pc = "delete"
    /\ \E t \in DOMAIN tasks : tasks[t].statusId = parseInt(procs[p].args.id).n

\* C3 (as claimed): in every reachable state no two Boards have the same
\* name.
C3_BoardNamesUnique ==
  \A b1, b2 \in DOMAIN boards : b1 # b2 => boards[b1] # boards[b2]

\* C4: no step of deleteBoard(id) touches another Board, a Status, or a Task
\* of another Board, and none adds a row; when it answers 200 the Board is
\* gone from the table and from the list of getBoards, and no Task has that
\* boardId.
C4_DeleteBoardEffect ==
  [][\A p \in Procs :
       Acts(p, "deleteBoard") =>
         LET b == parseInt(procs'[p].args.id).n
         IN /\ DOMAIN boards' \subseteq DOMAIN boards
            /\ \A o \in DOMAIN boards \ {b} :
                 o \in DOMAIN boards' /\ boards'[o] = boards[o]
            /\ DOMAIN tasks' \subseteq DOMAIN tasks
            /\ \A t \in DOMAIN tasks :
                 tasks[t].boardId # b => t \in DOMAIN tasks' /\ tasks'[t] = tasks[t]
            /\ statuses' = statuses
            /\ Answers(p, "deleteBoard", 200) =>
                 /\ b \notin DOMAIN boards'
                 /\ \A i \in 1..Len(getBoards') : getBoards'[i].id # b
                 /\ \A t \in DOMAIN tasks' : tasks'[t].boardId # b]_vars

\* C4 witness: deleteBoard has answered 200 and a Task of another Board is
\* still stored.
C4_Witness ==
  \E p \in Procs :
    /\ Answered(p, "deleteBoard", 200)
    /\ parseInt(procs[p].args.id).n \notin DOMAIN boards
    /\ \E t \in DOMAIN tasks : tasks[t].boardId \in DOMAIN boards

\* C5: no step of deleteStatus(id) deletes or adds a Task, changes a title,
\* description or boardId, or changes the statusId of a Task that does not
\* reference the Status; a statusId it changes becomes NULL; when it answers
\* 200 the Status is gone from the table and from the list of getStatuses,
\* the other Statuses are as they were, and no Task references it.
C5_DeleteStatusEffect ==
  [][\A p \in Procs :
       Acts(p, "deleteStatus") =>
         LET s == parseInt(procs'[p].args.id).n
         IN /\ DOMAIN tasks' = DOMAIN tasks
            /\ \A t \in DOMAIN tasks :
                 tasks'[t] = IF tasks[t].statusId = s /\ tasks'[t].statusId # s
                               THEN [tasks[t] EXCEPT !.statusId = NULL]
                               ELSE tasks[t]
            /\ boards' = boards
            /\ \A o \in DOMAIN statuses \ {s} :
                 o \in DOMAIN statuses' /\ statuses'[o] = statuses[o]
            /\ Answers(p, "deleteStatus", 200) =>
                 /\ s \notin DOMAIN statuses'
                 /\ \A i \in 1..Len(getStatuses') : getStatuses'[i].id # s
                 /\ \A t \in DOMAIN tasks' : tasks'[t].statusId # s]_vars

\* C5 witness: deleteStatus has answered 200, the Status is gone and a Task
\* is stored with no Status.
C5_Witness ==
  \E p \in Procs :
    /\ Answered(p, "deleteStatus", 200)
    /\ parseInt(procs[p].args.id).n \notin DOMAIN statuses
    /\ \E t \in DOMAIN tasks : tasks[t].statusId = NULL

\* The request in slot p, once it has acted.
Req(p) == procs'[p].args
NoStatusKey(args) == args.statusId = Undefined /\ args.statusName = Undefined

NamesStatus(args) ==
  /\ args.statusName.t = "string"
  /\ NameHeld(statuses, trim(args.statusName.s), 0)

\* C7 (as documented): a createTask or updateTask request that carries no
\* statusId and a statusName naming an existing Status, and is otherwise
\* valid, succeeds and the Task is linked to the Status of that name.
C7_StatusNameAccepted ==
  \A p \in Procs :
    /\ ( /\ procs[p].pc = "done"
         /\ procs[p].op = "createTask"
         /\ ~NameMissing(procs[p].args.title)
         /\ parseInt(procs[p].args.boardId).n \in DOMAIN boards
         /\ procs[p].args.statusId = Undefined
         /\ NamesStatus(procs[p].args) )
       => /\ procs[p].code = 201
          /\ \E t \in DOMAIN tasks :
               /\ tasks[t].statusId \in DOMAIN statuses
               /\ statuses[tasks[t].statusId] = trim(procs[p].args.statusName.s)
    /\ ( /\ procs[p].pc = "done"
         /\ procs[p].op = "updateTask"
         /\ parseInt(procs[p].args.id).n \in DOMAIN tasks
         /\ KeysPresent(procs[p].args) = {"statusName"}
         /\ NamesStatus(procs[p].args) )
       => /\ procs[p].code = 200
          /\ LET row == tasks[parseInt(procs[p].args.id).n]
             IN /\ row.statusId \in DOMAIN statuses
                /\ statuses[row.statusId] = trim(procs[p].args.statusName.s)

Malformed(args) ==
  \/ args.title # Undefined /\ NameMissing(args.title)
  \/ args.boardId # Undefined /\ parseInt(args.boardId).nan
  \/ /\ ~NoStatusKey(args)
     /\ args.statusId # Null
     /\ args.statusName # Null
     /\ parseInt(args.statusId).nan

\* C9: the only step of an updateTask request that changes a Task row is the
\* one that answers 200, and a request with an empty title, an unparsable
\* boardId or an unresolvable status is never answered 200 and changes no
\* Task row, whatever other keys it carries.
C9_RejectedWritesNothing ==
  [][\A p \in Procs :
       Acts(p, "updateTask") =>
         /\ ~Answers(p, "updateTask", 200) => tasks' = tasks
         /\ Malformed(Req(p)) =>
              tasks' = tasks /\ ~Answers(p, "updateTask", 200)]_vars

\* C9 witness: an updateTask of a stored Task with an empty title and a valid
\* description has been answered 400.
C9_Witness ==
  \E p \in Procs :
    /\ Answered(p, "updateTask", 400)
    /\ parseInt(procs[p].args.id).n \in DOMAIN tasks
    /\ NameMissing(procs[p].args.title)
    /\ procs[p].args.description.t = "string"

\* C10: the step in which updateTask answers 200 changes the target Task
\* only: a title, description, boardId or statusId whose key (for statusId:
\* statusId and statusName) is absent from the request keeps its value, and
\* no other Task, no Board and no Status changes.
C10_PartialUpdate ==
  [][\A p \in Procs :
       Answers(p, "updateTask", 200) =>
         LET id == parseInt(Req(p).id).n
         IN /\ DOMAIN tasks' = DOMAIN tasks
            /\ id \in DOMAIN tasks
            /\ \A t \in DOMAIN tasks \ {id} : tasks'[t] = tasks[t]
            /\ Req(p).title = Undefined => tasks'[id].title = tasks[id].title
            /\ Req(p).description = Undefined =>
                 tasks'[id].description = tasks[id].description
            /\ Req(p).boardId = Undefined => tasks'[id].boardId = tasks[id].boardId
            /\ NoStatusKey(Req(p)) => tasks'[id].statusId = tasks[id].statusId
            /\ boards' = boards
            /\ statuses' = statuses]_vars

\* C10 witness: updateTask has answered 200 to a request with a title and no
\* other key, the Task has a description and a Status, and another Task is
\* stored.
C10_Witness ==
  \E p \in Procs :
    /\ Answered(p, "updateTask", 200)
    /\ KeysPresent(procs[p].args) = {"title"}
    /\ LET id == parseInt(procs[p].args.id).n
       IN /\ id \in DOMAIN tasks
          /\ tasks[id].description # Null
          /\ tasks[id].statusId # NULL
          /\ DOMAIN tasks # {id}

\* The request carries an explicit null under statusId or statusName.
StatusNull(args) == args.statusId = Null \/ args.statusName = Null
StatusKeys == {"statusId", "statusName"}

Addressed(op) ==
  IF op \in {"updateBoard", "deleteBoard"} THEN DOMAIN boards
  ELSE IF op \in {"updateStatus", "deleteStatus"} THEN DOMAIN statuses
  ELSE DOMAIN tasks
\* The body of an update request is well formed.
BodyWellFormed(op, args) ==
  /\ op \in {"updateBoard", "updateStatus"} => ~NameMissing(args.name)
  /\ op = "updateTask" => ~Malformed(args)

\* C12: an update (with a well-formed body) or a delete of a Board, Status or
\* Task whose id parses and is the id of no stored row is answered 404 by the
\* step that looks the row up, and that step changes no row; for updateBoard
\* and updateStatus also when another row holds the requested name.
C12_MissingIdNotFound ==
  [][\A p \in Procs :
       \A op \in {"updateBoard", "deleteBoard", "updateStatus", "deleteStatus",
                  "updateTask", "deleteTask"} :
         ( /\ Acts(p, op)
           /\ procs[p].pc = "idle"
           /\ ~parseInt(Req(p).id).nan
           /\ parseInt(Req(p).id).n \notin Addressed(op)
           /\ BodyWellFormed(op, Req(p)) )
         => /\ Answers(p, op, 404)
            /\ boards' = boards
            /\ statuses' = statuses
            /\ tasks' = tasks]_vars

\* C12 witness: updateStatus of an id of no Status, asking for a name that a
\* stored Status holds, has been answered 404.
C12_Witness ==
  \E p \in Procs :
    /\ Answered(p, "updateStatus", 404)
    /\ parseInt(procs[p].args.id).n \notin DOMAIN statuses
    /\ NameHeld(statuses, trim(procs[p].args.name.s), 0)

\* C12, Boards: updateBoard of an id of no Board, asking for a name that a
\* stored Board holds, has been answered 404.
C12_WitnessBoard ==
  \E p \in Procs :
    /\ Answered(p, "updateBoard", 404)
    /\ parseInt(procs[p].args.id).n \notin DOMAIN boards
    /\ NameHeld(boards, trim(procs[p].args.name.s), 0)

\* The name rows of the table that the requests of `op` address.
Named(op) == IF op = "updateBoard" THEN boards ELSE statuses

\* C13: updateBoard and updateStatus of a stored id with a non-empty name are
\* answered 400 'Another ... with this name already exists', changing
\* nothing, when a row with a different id holds the trimmed name, and are
\* answered 200 otherwise, the row then holding the trimmed name and every
\* other row being as it was; when the row itself holds the trimmed name the
\* answer is 200 and the names are unchanged.
C13_RenameConflict ==
  [][\A p \in Procs :
       \A op \in {"updateBoard", "updateStatus"} :
         \A code \in {200, 400, 404, 500} :
           ( /\ Answers(p, op, code)
             /\ ~parseInt(Req(p).id).nan
             /\ parseInt(Req(p).id).n \in DOMAIN Named(op)
             /\ ~NameMissing(Req(p).name) )
           => LET id == parseInt(Req(p).id).n
                  name == trim(Req(p).name.s)
                  other == \E r \in DOMAIN Named(op) \ {id} : Named(op)[r] = name
              IN /\ tasks' = tasks
                 /\ other =>
                      /\ code = 400
                      /\ procs'[p].msg \in
                           {"Another board with this name already exists",
                            "Another status with this name already exists"}
                      /\ boards' = boards
                      /\ statuses' = statuses
                 /\ ~other =>
                      /\ code = 200
                      /\ Named(op)' = [Named(op) EXCEPT ![id] = name]
                      /\ op = "updateBoard" => statuses' = statuses
                      /\ op = "updateStatus" => boards' = boards
                 /\ Named(op)[id] = name =>
                      code = 200 /\ boards' = boards /\ statuses' = statuses]_vars

\* C13 witness: updateStatus has answered 200 to a request whose name, once
\* trimmed, is the name the Status holds, while another Status is stored.
C13_Witness ==
  \E p \in Procs :
    /\ Answered(p, "updateStatus", 200)
    /\ procs[p].args.name.s # trim(procs[p].args.name.s)
    /\ LET id == parseInt(procs[p].args.id).n
       IN /\ id \in DOMAIN statuses
          /\ statuses[id] = trim(procs[p].args.name.s)
          /\ DOMAIN statuses # {id}

\* C13, conflict: updateBoard of a stored Board has been answered 400 and
\* another Board holds the trimmed name.
C13_WitnessConflict ==
  \E p \in Procs :
    /\ Answered(p, "updateBoard", 400)
    /\ ~NameMissing(procs[p].args.name)
    /\ LET id == parseInt(procs[p].args.id).n
       IN /\ id \in DOMAIN boards
          /\ \E r \in DOMAIN boards \ {id} :
               boards[r] = trim(procs[p].args.name.s)

\* C14 (as claimed): a deleteBoard request never ends having deleted Tasks
\* of the Board while the Board is still stored.
C14_AtomicCascade ==
  \A p \in Procs :
    ( /\ procs[p].op = "deleteBoard"
      /\ procs[p].pc = "done"
      /\ procs[p].count > 0 )
    => parseInt(procs[p].args.id).n \notin DOMAIN boards

\* C15 (as claimed): in no state has a deleteStatus request set the statusId
\* of Tasks to NULL while the Status is still stored, and a deleteStatus that
\* is not answered 200 has changed no Task.
C15_AtomicUnlink ==
  \A p \in Procs :
    (procs[p].op = "deleteStatus" /\ procs[p].count > 0) =>
      /\ parseInt(procs[p].args.id).n \notin DOMAIN statuses
      /\ procs[p].pc = "done" => procs[p].code = 200

\* C16 (as claimed): two createStatus requests with the same trimmed name are
\* never both past the name pre-check and before the insert, every
\* createStatus is answered 201 or 400, and no two Statuses hold one name.
C16_NoDoubleInsert ==
  /\ \A p, q \in Procs :
       ( /\ p # q
         /\ procs[p].op = "createStatus" /\ procs[p].pc = "create"
         /\ procs[q].op = "createStatus" /\ procs[q].pc = "create" )
       => trim(procs[p].args.name.s) # trim(procs[q].args.name.s)
  /\ \A p \in Procs :
       (procs[p].op = "createStatus" /\ procs[p].pc = "done") =>
         procs[p].code \in {201, 400}
  /\ \A s1, s2 \in DOMAIN statuses : s1 # s2 => statuses[s1] # statuses[s2]
====
